---- MODULE Spec2Model ----
(***************************************************************************)
(* Model of color_plugin.py: ColorDatabase (an SQLite table colors with    *)
(* PRIMARY KEY (r, g, b)) and ColorLookup (get_color_name memoised by      *)
(* functools.lru_cache, add_color, import_from_json, find_similar_color).  *)
(*                                                                         *)
(* A Python string that the code parses (a key of the JSON import file) is *)
(* a sequence of characters; a Python Optional is a sequence of length 0   *)
(* (None) or 1. A character is a one-character string; a character outside *)
(* printable ASCII is written "U+" and its code point ("U+0663" is ARABIC- *)
(* INDIC DIGIT THREE), tab, newline, form feed and carriage return "\t",    *)
(* "\n", "\f", "\r".                                                        *)
(***************************************************************************)
EXTENDS Integers, Sequences, FiniteSets, TLC

VARIABLES
    store,   \* rows of table colors: a set of [key |-> <<r, g, b>>, name |-> text]
    cache,   \* the lru_cache of get_color_name, least recently used entry first
    last,    \* the call that has just returned: its arguments, outcome and store accesses
    added,   \* history: per key, the name of the latest add_color not overwritten by an import
    written, \* history: the keys add_color or a committed import has written
    hex,     \* a call of hex_to_rgb: its argument, its position, what it returned
    threads, \* per thread, the call of get_color_name or add_color in progress
    raced,   \* history: keys cached by a get_color_name that an add_color overtook
    frame,   \* the ColorDatabase call in progress and the connection it holds
    conns    \* the number of open connections to the database file

vars == <<store, cache, last, added, written, hex, threads, raced, frame, conns>>

\* what the calls of a single caller that run to completion leave alone
aside == <<hex, threads, raced, frame>>

----------------------------------------------------------------------------
(* Bounds and program constants *)

\* lru_cache(maxsize=2048), scaled down so that the cache fills and evicts
MaxCache == 2

MinComponent == 0
MaxComponent == 999

\* sys.get_int_max_str_digits(): the longest literal int() converts in base 10
MaxStrDigits == 4300

\* Python None / a present value
None == <<>>
Some(x) == <<x>>

----------------------------------------------------------------------------
(* Inputs the calls are made with *)

Names == {"Bright Red", "Deep Blue", ""}

\* keys add_color is called with: two colours of the __main__ example and a
\* negative one
AddKeys == {<<255, 0, 0>>, <<999, 999, 999>>, <<-1, 0, 0>>}

\* the add_color calls: every name at the upper boundary, one name at
\* (255, 0, 0) and at the negative key
AddCalls ==
    {<<<<999, 999, 999>>, name>> : name \in Names}
        \cup {<<<<255, 0, 0>>, "Bright Red">>, <<<<-1, 0, 0>>, "Bright Red">>}

\* keys get_color_name is called with: the range boundaries 0 (never
\* written) and 999 (written), and the first value outside on each side
ResolveKeys ==
    {<<999, 999, 999>>, <<0, 0, 0>>, <<1000, 0, 0>>, <<-1, 0, 0>>}

\* (centre, threshold) pairs find_similar_color is called with; (127, 0, 0)
\* is at distance 128 from both (255, 0, 0) and (-1, 0, 0)
SimilarQueries ==
    {<<<<255, 0, 0>>, 0>>, <<<<255, 0, 0>>, -1>>,
     <<<<250, 0, 0>>, 10>>, <<<<127, 0, 0>>, 3000>>}

----------------------------------------------------------------------------
(* ColorDatabase *)

\* line 82: all(0 <= x <= 999 for x in (r, g, b))
InRange(k) ==
    \A i \in 1..3 : MinComponent <= k[i] /\ k[i] <= MaxComponent

\* INSERT without the primary key's conflict resolution: the old row stays
InsertKeepOld(rows, k, name) ==
    rows \cup {[key |-> k, name |-> name]}

\* INSERT OR REPLACE INTO colors ... under PRIMARY KEY (r, g, b): the row
\* holding the key is deleted, then the new row is inserted
InsertOrReplace(rows, k, name) ==
    {rec \in rows : rec.key # k} \cup {[key |-> k, name |-> name]}

\* ColorDatabase.add_color: one INSERT OR REPLACE, committed
db_add_color(rows, k, name) == InsertOrReplace(rows, k, name)

\* ColorDatabase.find_color: range check, then SELECT name ... LIMIT 1
find_color(rows, k) ==
    IF ~InRange(k) THEN None
    ELSE IF \E rec \in rows : rec.key = k
         THEN Some((CHOOSE rec \in rows : rec.key = k).name)
         ELSE None

----------------------------------------------------------------------------
(* Parsing of an import key: r, g, b = map(int, rgb_str.split(',')) *)

\* the characters int() skips around a literal: those of str.isspace() but
\* the separators U+001C to U+001F
PyWhitespace ==
    {"\t", "\n", "U+000B", "\f", "\r", " ", "U+0085", "U+00A0", "U+1680",
     "U+2000", "U+2001", "U+2002", "U+2003", "U+2004", "U+2005", "U+2006",
     "U+2007", "U+2008", "U+2009", "U+200A", "U+2028", "U+2029", "U+202F",
     "U+205F", "U+3000"}

\* the characters int() reads as a digit: the decimal digits of Unicode
\* 14.0, ten per script, each row in the order of the values 0 to 9
DecimalDigitRows ==
    << <<"0", "1", "2", "3", "4", "5", "6", "7", "8", "9">>,
       <<"U+0660", "U+0661", "U+0662", "U+0663", "U+0664", "U+0665", "U+0666", "U+0667", "U+0668", "U+0669">>,
       <<"U+06F0", "U+06F1", "U+06F2", "U+06F3", "U+06F4", "U+06F5", "U+06F6", "U+06F7", "U+06F8", "U+06F9">>,
       <<"U+07C0", "U+07C1", "U+07C2", "U+07C3", "U+07C4", "U+07C5", "U+07C6", "U+07C7", "U+07C8", "U+07C9">>,
       <<"U+0966", "U+0967", "U+0968", "U+0969", "U+096A", "U+096B", "U+096C", "U+096D", "U+096E", "U+096F">>,
       <<"U+09E6", "U+09E7", "U+09E8", "U+09E9", "U+09EA", "U+09EB", "U+09EC", "U+09ED", "U+09EE", "U+09EF">>,
       <<"U+0A66", "U+0A67", "U+0A68", "U+0A69", "U+0A6A", "U+0A6B", "U+0A6C", "U+0A6D", "U+0A6E", "U+0A6F">>,
       <<"U+0AE6", "U+0AE7", "U+0AE8", "U+0AE9", "U+0AEA", "U+0AEB", "U+0AEC", "U+0AED", "U+0AEE", "U+0AEF">>,
       <<"U+0B66", "U+0B67", "U+0B68", "U+0B69", "U+0B6A", "U+0B6B", "U+0B6C", "U+0B6D", "U+0B6E", "U+0B6F">>,
       <<"U+0BE6", "U+0BE7", "U+0BE8", "U+0BE9", "U+0BEA", "U+0BEB", "U+0BEC", "U+0BED", "U+0BEE", "U+0BEF">>,
       <<"U+0C66", "U+0C67", "U+0C68", "U+0C69", "U+0C6A", "U+0C6B", "U+0C6C", "U+0C6D", "U+0C6E", "U+0C6F">>,
       <<"U+0CE6", "U+0CE7", "U+0CE8", "U+0CE9", "U+0CEA", "U+0CEB", "U+0CEC", "U+0CED", "U+0CEE", "U+0CEF">>,
       <<"U+0D66", "U+0D67", "U+0D68", "U+0D69", "U+0D6A", "U+0D6B", "U+0D6C", "U+0D6D", "U+0D6E", "U+0D6F">>,
       <<"U+0DE6", "U+0DE7", "U+0DE8", "U+0DE9", "U+0DEA", "U+0DEB", "U+0DEC", "U+0DED", "U+0DEE", "U+0DEF">>,
       <<"U+0E50", "U+0E51", "U+0E52", "U+0E53", "U+0E54", "U+0E55", "U+0E56", "U+0E57", "U+0E58", "U+0E59">>,
       <<"U+0ED0", "U+0ED1", "U+0ED2", "U+0ED3", "U+0ED4", "U+0ED5", "U+0ED6", "U+0ED7", "U+0ED8", "U+0ED9">>,
       <<"U+0F20", "U+0F21", "U+0F22", "U+0F23", "U+0F24", "U+0F25", "U+0F26", "U+0F27", "U+0F28", "U+0F29">>,
       <<"U+1040", "U+1041", "U+1042", "U+1043", "U+1044", "U+1045", "U+1046", "U+1047", "U+1048", "U+1049">>,
       <<"U+1090", "U+1091", "U+1092", "U+1093", "U+1094", "U+1095", "U+1096", "U+1097", "U+1098", "U+1099">>,
       <<"U+17E0", "U+17E1", "U+17E2", "U+17E3", "U+17E4", "U+17E5", "U+17E6", "U+17E7", "U+17E8", "U+17E9">>,
       <<"U+1810", "U+1811", "U+1812", "U+1813", "U+1814", "U+1815", "U+1816", "U+1817", "U+1818", "U+1819">>,
       <<"U+1946", "U+1947", "U+1948", "U+1949", "U+194A", "U+194B", "U+194C", "U+194D", "U+194E", "U+194F">>,
       <<"U+19D0", "U+19D1", "U+19D2", "U+19D3", "U+19D4", "U+19D5", "U+19D6", "U+19D7", "U+19D8", "U+19D9">>,
       <<"U+1A80", "U+1A81", "U+1A82", "U+1A83", "U+1A84", "U+1A85", "U+1A86", "U+1A87", "U+1A88", "U+1A89">>,
       <<"U+1A90", "U+1A91", "U+1A92", "U+1A93", "U+1A94", "U+1A95", "U+1A96", "U+1A97", "U+1A98", "U+1A99">>,
       <<"U+1B50", "U+1B51", "U+1B52", "U+1B53", "U+1B54", "U+1B55", "U+1B56", "U+1B57", "U+1B58", "U+1B59">>,
       <<"U+1BB0", "U+1BB1", "U+1BB2", "U+1BB3", "U+1BB4", "U+1BB5", "U+1BB6", "U+1BB7", "U+1BB8", "U+1BB9">>,
       <<"U+1C40", "U+1C41", "U+1C42", "U+1C43", "U+1C44", "U+1C45", "U+1C46", "U+1C47", "U+1C48", "U+1C49">>,
       <<"U+1C50", "U+1C51", "U+1C52", "U+1C53", "U+1C54", "U+1C55", "U+1C56", "U+1C57", "U+1C58", "U+1C59">>,
       <<"U+A620", "U+A621", "U+A622", "U+A623", "U+A624", "U+A625", "U+A626", "U+A627", "U+A628", "U+A629">>,
       <<"U+A8D0", "U+A8D1", "U+A8D2", "U+A8D3", "U+A8D4", "U+A8D5", "U+A8D6", "U+A8D7", "U+A8D8", "U+A8D9">>,
       <<"U+A900", "U+A901", "U+A902", "U+A903", "U+A904", "U+A905", "U+A906", "U+A907", "U+A908", "U+A909">>,
       <<"U+A9D0", "U+A9D1", "U+A9D2", "U+A9D3", "U+A9D4", "U+A9D5", "U+A9D6", "U+A9D7", "U+A9D8", "U+A9D9">>,
       <<"U+A9F0", "U+A9F1", "U+A9F2", "U+A9F3", "U+A9F4", "U+A9F5", "U+A9F6", "U+A9F7", "U+A9F8", "U+A9F9">>,
       <<"U+AA50", "U+AA51", "U+AA52", "U+AA53", "U+AA54", "U+AA55", "U+AA56", "U+AA57", "U+AA58", "U+AA59">>,
       <<"U+ABF0", "U+ABF1", "U+ABF2", "U+ABF3", "U+ABF4", "U+ABF5", "U+ABF6", "U+ABF7", "U+ABF8", "U+ABF9">>,
       <<"U+FF10", "U+FF11", "U+FF12", "U+FF13", "U+FF14", "U+FF15", "U+FF16", "U+FF17", "U+FF18", "U+FF19">>,
       <<"U+104A0", "U+104A1", "U+104A2", "U+104A3", "U+104A4", "U+104A5", "U+104A6", "U+104A7", "U+104A8", "U+104A9">>,
       <<"U+10D30", "U+10D31", "U+10D32", "U+10D33", "U+10D34", "U+10D35", "U+10D36", "U+10D37", "U+10D38", "U+10D39">>,
       <<"U+11066", "U+11067", "U+11068", "U+11069", "U+1106A", "U+1106B", "U+1106C", "U+1106D", "U+1106E", "U+1106F">>,
       <<"U+110F0", "U+110F1", "U+110F2", "U+110F3", "U+110F4", "U+110F5", "U+110F6", "U+110F7", "U+110F8", "U+110F9">>,
       <<"U+11136", "U+11137", "U+11138", "U+11139", "U+1113A", "U+1113B", "U+1113C", "U+1113D", "U+1113E", "U+1113F">>,
       <<"U+111D0", "U+111D1", "U+111D2", "U+111D3", "U+111D4", "U+111D5", "U+111D6", "U+111D7", "U+111D8", "U+111D9">>,
       <<"U+112F0", "U+112F1", "U+112F2", "U+112F3", "U+112F4", "U+112F5", "U+112F6", "U+112F7", "U+112F8", "U+112F9">>,
       <<"U+11450", "U+11451", "U+11452", "U+11453", "U+11454", "U+11455", "U+11456", "U+11457", "U+11458", "U+11459">>,
       <<"U+114D0", "U+114D1", "U+114D2", "U+114D3", "U+114D4", "U+114D5", "U+114D6", "U+114D7", "U+114D8", "U+114D9">>,
       <<"U+11650", "U+11651", "U+11652", "U+11653", "U+11654", "U+11655", "U+11656", "U+11657", "U+11658", "U+11659">>,
       <<"U+116C0", "U+116C1", "U+116C2", "U+116C3", "U+116C4", "U+116C5", "U+116C6", "U+116C7", "U+116C8", "U+116C9">>,
       <<"U+11730", "U+11731", "U+11732", "U+11733", "U+11734", "U+11735", "U+11736", "U+11737", "U+11738", "U+11739">>,
       <<"U+118E0", "U+118E1", "U+118E2", "U+118E3", "U+118E4", "U+118E5", "U+118E6", "U+118E7", "U+118E8", "U+118E9">>,
       <<"U+11950", "U+11951", "U+11952", "U+11953", "U+11954", "U+11955", "U+11956", "U+11957", "U+11958", "U+11959">>,
       <<"U+11C50", "U+11C51", "U+11C52", "U+11C53", "U+11C54", "U+11C55", "U+11C56", "U+11C57", "U+11C58", "U+11C59">>,
       <<"U+11D50", "U+11D51", "U+11D52", "U+11D53", "U+11D54", "U+11D55", "U+11D56", "U+11D57", "U+11D58", "U+11D59">>,
       <<"U+11DA0", "U+11DA1", "U+11DA2", "U+11DA3", "U+11DA4", "U+11DA5", "U+11DA6", "U+11DA7", "U+11DA8", "U+11DA9">>,
       <<"U+16A60", "U+16A61", "U+16A62", "U+16A63", "U+16A64", "U+16A65", "U+16A66", "U+16A67", "U+16A68", "U+16A69">>,
       <<"U+16AC0", "U+16AC1", "U+16AC2", "U+16AC3", "U+16AC4", "U+16AC5", "U+16AC6", "U+16AC7", "U+16AC8", "U+16AC9">>,
       <<"U+16B50", "U+16B51", "U+16B52", "U+16B53", "U+16B54", "U+16B55", "U+16B56", "U+16B57", "U+16B58", "U+16B59">>,
       <<"U+1D7CE", "U+1D7CF", "U+1D7D0", "U+1D7D1", "U+1D7D2", "U+1D7D3", "U+1D7D4", "U+1D7D5", "U+1D7D6", "U+1D7D7">>,
       <<"U+1D7D8", "U+1D7D9", "U+1D7DA", "U+1D7DB", "U+1D7DC", "U+1D7DD", "U+1D7DE", "U+1D7DF", "U+1D7E0", "U+1D7E1">>,
       <<"U+1D7E2", "U+1D7E3", "U+1D7E4", "U+1D7E5", "U+1D7E6", "U+1D7E7", "U+1D7E8", "U+1D7E9", "U+1D7EA", "U+1D7EB">>,
       <<"U+1D7EC", "U+1D7ED", "U+1D7EE", "U+1D7EF", "U+1D7F0", "U+1D7F1", "U+1D7F2", "U+1D7F3", "U+1D7F4", "U+1D7F5">>,
       <<"U+1D7F6", "U+1D7F7", "U+1D7F8", "U+1D7F9", "U+1D7FA", "U+1D7FB", "U+1D7FC", "U+1D7FD", "U+1D7FE", "U+1D7FF">>,
       <<"U+1E140", "U+1E141", "U+1E142", "U+1E143", "U+1E144", "U+1E145", "U+1E146", "U+1E147", "U+1E148", "U+1E149">>,
       <<"U+1E2F0", "U+1E2F1", "U+1E2F2", "U+1E2F3", "U+1E2F4", "U+1E2F5", "U+1E2F6", "U+1E2F7", "U+1E2F8", "U+1E2F9">>,
       <<"U+1E950", "U+1E951", "U+1E952", "U+1E953", "U+1E954", "U+1E955", "U+1E956", "U+1E957", "U+1E958", "U+1E959">>,
       <<"U+1FBF0", "U+1FBF1", "U+1FBF2", "U+1FBF3", "U+1FBF4", "U+1FBF5", "U+1FBF6", "U+1FBF7", "U+1FBF8", "U+1FBF9">> >>

Digits ==
    UNION {{DecimalDigitRows[r][i] : i \in 1..10} : r \in 1..Len(DecimalDigitRows)}

DigitValue(c) ==
    CASE c = "0" -> 0 [] c = "1" -> 1 [] c = "2" -> 2 [] c = "3" -> 3
      [] c = "4" -> 4 [] c = "5" -> 5 [] c = "6" -> 6 [] c = "7" -> 7
      [] c = "8" -> 8 [] c = "9" -> 9
      [] OTHER -> (CHOOSE i \in 1..10 :
                      \E r \in 1..Len(DecimalDigitRows) : DecimalDigitRows[r][i] = c) - 1

\* str.split(sep): the pieces between the separators, empty pieces kept
RECURSIVE py_split(_, _)
py_split(s, sep) ==
    IF \A i \in 1..Len(s) : s[i] # sep THEN <<s>>
    ELSE LET p == CHOOSE i \in 1..Len(s) :
                      s[i] = sep /\ \A j \in 1..(i - 1) : s[j] # sep
         IN  <<SubSeq(s, 1, p - 1)>> \o py_split(SubSeq(s, p + 1, Len(s)), sep)

\* int() ignores white space around the literal
RECURSIVE py_strip(_)
py_strip(s) ==
    IF s = <<>> THEN s
    ELSE IF s[1] \in PyWhitespace THEN py_strip(Tail(s))
    ELSE IF s[Len(s)] \in PyWhitespace THEN py_strip(SubSeq(s, 1, Len(s) - 1))
    ELSE s

\* value of a digit string in base 10, underscores skipped
RECURSIVE DecimalValue(_, _)
DecimalValue(s, acc) ==
    IF s = <<>> THEN acc
    ELSE IF s[1] = "_" THEN DecimalValue(Tail(s), acc)
    ELSE DecimalValue(Tail(s), 10 * acc + DigitValue(s[1]))

\* int(x) of a str: optional sign, then digits, single underscores allowed
\* between digits, at most MaxStrDigits digits (leading zeros counted);
\* None stands for the ValueError
py_int(x) ==
    LET t      == py_strip(x)
        signed == t # <<>> /\ t[1] \in {"+", "-"}
        body   == IF signed THEN Tail(t) ELSE t
        wellFormed ==
            /\ body # <<>>
            /\ \A i \in 1..Len(body) : body[i] \in Digits \cup {"_"}
            /\ body[1] # "_" /\ body[Len(body)] # "_"
            /\ \A i \in 1..(Len(body) - 1) : ~(body[i] = "_" /\ body[i + 1] = "_")
            /\ Cardinality({i \in 1..Len(body) : body[i] # "_"}) <= MaxStrDigits
    IN  IF ~wellFormed THEN None
        ELSE IF signed /\ t[1] = "-" THEN Some(0 - DecimalValue(body, 0))
        ELSE Some(DecimalValue(body, 0))

\* r, g, b = map(int, rgb_str.split(',')): None stands for the ValueError
\* of int() or of unpacking fewer or more than three values
ParseKey(rgb_str) ==
    LET parts == py_split(rgb_str, ",")
    IN  IF Len(parts) # 3 \/ \E i \in 1..3 : py_int(parts[i]) = None
        THEN None
        ELSE Some(<<py_int(parts[1])[1], py_int(parts[2])[1], py_int(parts[3])[1]>>)

----------------------------------------------------------------------------
(* Import files the model draws from: the items of the JSON object in file *)
(* order, each a str key and a name (None for a JSON null)                 *)

Item(s, n) == [rgb_str |-> s, name |-> n]
File(items) == [readable |-> TRUE, items |-> items]

S_255_0_0     == <<"2", "5", "5", ",", "0", ",", "0">>
S_plus255_0_0 == <<"+", "2", "5", "5", ",", "\t", "0", ",", "U+0660">>
S_999         == <<"9", "9", "9", ",", " ", "9", "9", "9", ",", "9", "9", "9", "\n">>
S_neg1_0_0    == <<"-", "1", ",", "0", ",", "0">>
S_float       == <<"2", "5", ".", "5", ",", "0", ",", "0">>
S_two         == <<"0", ",", "0">>

ImportFiles ==
    << [readable |-> FALSE, items |-> <<>>],
       File(<<>>),
       File(<<Item(S_255_0_0, Some("Bright Red")), Item(S_999, Some("Deep Blue"))>>),
       File(<<Item(S_255_0_0, Some("Deep Blue")), Item(S_float, Some("Bright Red"))>>),
       File(<<Item(S_two, Some("Bright Red"))>>),
       File(<<Item(S_neg1_0_0, Some("")), Item(S_255_0_0, Some("Bright Red")),
              Item(S_plus255_0_0, Some("Deep Blue")), Item(S_999, Some("Bright Red"))>>),
       File(<<Item(S_255_0_0, Some("")), Item(S_999, None)>> ) >>

FileIds == 1..Len(ImportFiles)

\* what line 73 makes of each key of each file (computed once per file)
ParsedKeys ==
    [f \in FileIds |->
        [i \in 1..Len(ImportFiles[f].items) |-> ParseKey(ImportFiles[f].items[i].rgb_str)]]

\* the keys of each file that line 73 parses
BatchKeys ==
    [f \in FileIds |->
        {ParsedKeys[f][i][1] :
            i \in {j \in 1..Len(ImportFiles[f].items) : ParsedKeys[f][j] # None}}]

----------------------------------------------------------------------------
(* ColorDatabase.bulk_import_from_json *)

\* the for loop inside the transaction, from item i on: rows written so far
\* in txn, the statements executed so far in writes; it stops at the first
\* item that raises (ValueError of the key, IntegrityError of a null name)
RECURSIVE ImportLoop(_, _, _, _)
ImportLoop(txn, f, i, writes) ==
    IF i > Len(ImportFiles[f].items)
    THEN [ok |-> TRUE, txn |-> txn, writes |-> writes]
    ELSE LET k    == ParsedKeys[f][i]
             name == ImportFiles[f].items[i].name
         IN  IF k = None \/ name = None
             THEN [ok |-> FALSE, txn |-> txn, writes |-> writes]
             ELSE ImportLoop(InsertOrReplace(txn, k[1], name[1]), f, i + 1, writes + 1)

\* a connection whose exit keeps the statements executed before the exception
ExitKeepPartial(before, loop) ==
    [raised |-> ~loop.ok, rows |-> loop.txn, writes |-> loop.writes]

\* with sqlite3.connect(...) as conn: the exit commits when the block ends
\* normally and rolls back when it raises, and the exception goes on to the
\* caller
ConnectionExit(before, loop) ==
    [raised |-> ~loop.ok,
     rows   |-> IF loop.ok THEN loop.txn ELSE before,
     writes |-> loop.writes]

\* [raised, rows, writes]: open + json.load, then the loop in one transaction
bulk_import_from_json(rows, f) ==
    IF ~ImportFiles[f].readable
    THEN [raised |-> TRUE, rows |-> rows, writes |-> 0]
    ELSE ConnectionExit(rows, ImportLoop(rows, f, 1, 0))

----------------------------------------------------------------------------
(* functools.lru_cache(maxsize) around get_color_name: a bounded mapping   *)
(* from the call's arguments to its result, in order of last use           *)

\* the cached result of args, or None
cache_get(c, args) ==
    IF \E i \in 1..Len(c) : c[i].args = args
    THEN Some(c[CHOOSE i \in 1..Len(c) : c[i].args = args].val)
    ELSE None

\* a hit makes the entry the most recently used one
cache_touch(c, args) ==
    LET i == CHOOSE j \in 1..Len(c) : c[j].args = args
    IN  SubSeq(c, 1, i - 1) \o SubSeq(c, i + 1, Len(c)) \o <<c[i]>>

\* a cache that grows without limit
CachePutUnbounded(c, args, val) ==
    Append(c, [args |-> args, val |-> val])

\* a miss stores the result, evicting the least recently used entry when full
cache_put(c, args, val) ==
    IF Len(c) >= MaxCache
    THEN Tail(c) \o <<[args |-> args, val |-> val]>>
    ELSE Append(c, [args |-> args, val |-> val])

\* get_color_name.cache_clear()
cache_clear(c) == <<>>

----------------------------------------------------------------------------
(* ColorLookup *)

\* a check that lets 1000 pass
ValidRGB_UpTo1000(k) ==
    /\ MinComponent <= k[1] /\ k[1] <= MaxComponent + 1
    /\ MinComponent <= k[2] /\ k[2] <= MaxComponent + 1
    /\ MinComponent <= k[3] /\ k[3] <= MaxComponent + 1

\* line 114: 0 <= r <= 999 and 0 <= g <= 999 and 0 <= b <= 999
ValidRGB(k) ==
    /\ MinComponent <= k[1] /\ k[1] <= MaxComponent
    /\ MinComponent <= k[2] /\ k[2] <= MaxComponent
    /\ MinComponent <= k[3] /\ k[3] <= MaxComponent

\* a body that tests the name for None instead of for truth
BodyNameNotNone(rows, k) ==
    IF ~ValidRGB(k)
    THEN [result |-> "Invalid RGB value", reads |-> 0]
    ELSE LET name == find_color(rows, k)
         IN  [result |-> IF name # None THEN name[1] ELSE "Unknown",
              reads  |-> 1]

\* the body of get_color_name (what runs on a cache miss): the result and
\* the number of find_color calls made
get_color_name_body(rows, k) ==
    IF ~ValidRGB(k)
    THEN [result |-> "Invalid RGB value", reads |-> 0]
    ELSE LET name == find_color(rows, k)
         IN  [result |-> IF name # None /\ name[1] # "" THEN name[1] ELSE "Unknown",
              reads  |-> 1]

\* a wrapper that stores found names only, never "Unknown"
LookupSkipUnknown(rows, c, k) ==
    LET cached == cache_get(c, k)
    IN  IF cached # None
        THEN [result |-> cached[1], reads |-> 0, hit |-> TRUE,
              cache  |-> cache_touch(c, k)]
        ELSE LET body == get_color_name_body(rows, k)
             IN  [result |-> body.result, reads |-> body.reads, hit |-> FALSE,
                  cache  |-> IF body.result = "Unknown" THEN c
                             ELSE cache_put(c, k, body.result)]

\* the cached get_color_name: [result, reads, hit, cache]
lru_get_color_name(rows, c, k) ==
    LET cached == cache_get(c, k)
    IN  IF cached # None
        THEN [result |-> cached[1], reads |-> 0, hit |-> TRUE,
              cache  |-> cache_touch(c, k)]
        ELSE LET body == get_color_name_body(rows, k)
             IN  [result |-> body.result, reads |-> body.reads, hit |-> FALSE,
                  cache  |-> cache_put(c, k, body.result)]

\* an add_color that drops only the entry of the written key
AddColorDropKey(rows, c, k, name) ==
    [rows  |-> db_add_color(rows, k, name),
     cache |-> SelectSeq(c, LAMBDA e : e.args # k)]

\* an add_color that writes the row and leaves the cache alone
AddColorKeepCache(rows, c, k, name) ==
    [rows  |-> db_add_color(rows, k, name),
     cache |-> c]

\* ColorLookup.add_color: write through, then clear the whole cache
lookup_add_color(rows, c, k, name) ==
    [rows  |-> db_add_color(rows, k, name),
     cache |-> cache_clear(c)]

\* an import that clears the cache whether or not the store call raised
ImportClearAlways(rows, c, f) ==
    [db |-> bulk_import_from_json(rows, f), cache |-> cache_clear(c)]

\* ColorLookup.import_from_json: the store call, and cache_clear only when
\* it returned (an exception leaves line 128 unexecuted)
lookup_import_from_json(rows, c, f) ==
    LET res == bulk_import_from_json(rows, f)
    IN  [db |-> res, cache |-> IF res.raised THEN c ELSE cache_clear(c)]

\* ABS(r-?) + ABS(g-?) + ABS(b-?) as diff
Abs(x) == IF x < 0 THEN 0 - x ELSE x
diff(rec, q) ==
    Abs(rec.key[1] - q[1]) + Abs(rec.key[2] - q[2]) + Abs(rec.key[3] - q[3])

\* a filter that leaves out the rows at exactly the threshold
SelectedStrict(rows, q, threshold) ==
    {<<rec.key[1], rec.key[2], rec.key[3], rec.name, diff(rec, q)>> :
        rec \in {x \in rows : diff(x, q) < threshold}}

\* SELECT r, g, b, name, diff FROM colors WHERE diff <= ?
Selected(rows, q, threshold) ==
    {<<rec.key[1], rec.key[2], rec.key[3], rec.name, diff(rec, q)>> :
        rec \in {x \in rows : diff(x, q) <= threshold}}

\* ORDER BY diff: every arrangement of the selected rows with diff ascending
\* (SQL leaves the order of rows of equal diff open)
RECURSIVE OrderByDiff(_)
OrderByDiff(S) ==
    IF S = {} THEN {<<>>}
    ELSE LET least == {x \in S : \A y \in S : x[5] <= y[5]}
         IN  UNION {{<<x>> \o t : t \in OrderByDiff(S \ {x})} : x \in least}

\* ColorLookup.find_similar_color: the possible results of cursor.fetchall()
find_similar_color(rows, q, threshold) ==
    OrderByDiff(Selected(rows, q, threshold))

----------------------------------------------------------------------------
(* ColorLookup.hex_to_rgb; a str is a sequence of one-character strings    *)

HexDigits ==
    Digits \cup {"a", "b", "c", "d", "e", "f", "A", "B", "C", "D", "E", "F"}

HexDigitValue(c) ==
    IF c \in Digits THEN DigitValue(c)
    ELSE CASE c \in {"a", "A"} -> 10 [] c \in {"b", "B"} -> 11
           [] c \in {"c", "C"} -> 12 [] c \in {"d", "D"} -> 13
           [] c \in {"e", "E"} -> 14 [] c \in {"f", "F"} -> 15

\* str.lstrip(chars) for one character: every leading occurrence is removed
RECURSIVE py_lstrip(_, _)
py_lstrip(s, ch) ==
    IF s # <<>> /\ s[1] = ch THEN py_lstrip(Tail(s), ch) ELSE s

\* s[i:i+2] with i counted from 0: a slice past the end is cut short
Slice2(s, i) ==
    IF i >= Len(s) THEN <<>>
    ELSE SubSeq(s, i + 1, IF i + 2 <= Len(s) THEN i + 2 ELSE Len(s))

\* value of a digit string in base 16, underscores skipped
RECURSIVE HexValue(_, _)
HexValue(s, acc) ==
    IF s = <<>> THEN acc
    ELSE IF s[1] = "_" THEN HexValue(Tail(s), acc)
    ELSE HexValue(Tail(s), 16 * acc + HexDigitValue(s[1]))

\* int(x, 16) of a str: white space around the literal ignored, an optional
\* sign, an optional 0x or 0X (the zero of any script), then hex digits with
\* single underscores allowed between them and after the prefix, any number
\* of digits; None stands for the ValueError
py_int16(x) ==
    LET t        == py_strip(x)
        signed   == t # <<>> /\ t[1] \in {"+", "-"}
        u        == IF signed THEN Tail(t) ELSE t
        prefixed == /\ Len(u) >= 2 /\ u[2] \in {"x", "X"}
                    /\ u[1] \in Digits /\ DigitValue(u[1]) = 0
        v        == IF prefixed THEN SubSeq(u, 3, Len(u)) ELSE u
        body     == IF prefixed /\ v # <<>> /\ v[1] = "_" THEN Tail(v) ELSE v
        wellFormed ==
            /\ body # <<>>
            /\ \A i \in 1..Len(body) : body[i] \in HexDigits \cup {"_"}
            /\ body[1] # "_" /\ body[Len(body)] # "_"
            /\ \A i \in 1..(Len(body) - 1) : ~(body[i] = "_" /\ body[i + 1] = "_")
    IN  IF ~wellFormed THEN None
        ELSE IF signed /\ t[1] = "-" THEN Some(0 - HexValue(body, 0))
        ELSE Some(HexValue(body, 0))

\* hex_to_rgb: lstrip('#'), three characters doubled, then int(.., 16) of
\* the slices [0:2], [2:4], [4:6]; None stands for the ValueError
hex_to_rgb(hex_str) ==
    LET t == py_lstrip(hex_str, "#")
        u == IF Len(t) = 3 THEN <<t[1], t[1], t[2], t[2], t[3], t[3]>> ELSE t
        part(j) == py_int16(Slice2(u, 2 * (j - 1)))
    IN  IF \E j \in 1..3 : part(j) = None THEN None
        ELSE Some(<<part(1)[1], part(2)[1], part(3)[1]>>)

----------------------------------------------------------------------------
(* The calls of a single caller, each running to completion *)

\* last.file of a call that reads no file: an id past the last file
NoFile == Len(ImportFiles) + 1

\* hex while no call of hex_to_rgb is made
NoHexCall == [hex_str |-> <<>>, pc |-> "none", result |-> None]

\* the threads that call into one ColorLookup; a thread between calls, and
\* a thread at position pc of get_color_name(k) or add_color(k, name)
Threads == {"t1", "t2"}
IdleThread == [pc |-> "idle"]
Running(pc, k, name) ==
    [pc |-> pc, key |-> k, name |-> name, val |-> "", reads |-> 0,
     locked |-> FALSE, overtaken |-> FALSE]

\* frame while no ColorDatabase call is in progress, and a call about to
\* be made
NoFrame == [pc |-> "idle", connected |-> FALSE]
StoreCall(op, k, name, file, threshold) ==
    [pc |-> "idle", op |-> op, key |-> k, name |-> name, file |-> file,
     threshold |-> threshold, txn |-> {}, raised |-> FALSE, connected |-> FALSE,
     result |-> "", rows |-> <<>>, reads |-> 0, writes |-> 0]

AllKeys == AddKeys \cup ResolveKeys

\* files the process can hold open (RLIMIT_NOFILE less the files it has
\* open otherwise), scaled down so that the calls reach the limit
MaxConns == 3

\* last.cached: whether the cache held an entry when a writing call began
\* last.old: the name add_color found at its key, None when there was no row
\* last.raised: the call ended in an exception
\* last.again: get_color_name was called with the key of the call before
\*     it, a get_color_name that returned
\* last.self: the ColorLookup instance the method was called on
\* last.form: the parameters of get_color_name passed by keyword
\* last.result: what get_color_name returned; of a ColorDatabase.find_color
\*     call, the Optional it returned
\* last.evicted: with several instances, the arguments (self, r, g, b) whose
\*     entries the call removed from the cache
\* last.lost: with several instances, get_color_name was called with the
\*     arguments of an entry the get_color_name before it evicted
Call(op, k, name, file, threshold) ==
    [op |-> op, key |-> k, name |-> name, file |-> file, threshold |-> threshold,
     result |-> "", rows |-> <<>>, raised |-> FALSE, hit |-> FALSE,
     reads |-> 0, writes |-> 0, old |-> None, cached |-> FALSE, again |-> FALSE,
     evicted |-> {}, lost |-> FALSE, self |-> "a", form |-> <<>>]

\* the keys a cache holds entries of
CachedKeys(c) == {c[i].args : i \in 1..Len(c)}

Init ==
    /\ store = {}
    /\ cache = <<>>
    /\ last = Call("init", <<0, 0, 0>>, "", NoFile, 0)
    /\ added = [k \in AllKeys |-> None]
    /\ written = {}
    /\ hex = NoHexCall
    /\ threads = [t \in Threads |-> IdleThread]
    /\ raced = {}
    /\ frame = NoFrame
    /\ conns = 1

\* the files the process holds open: the connections, and the rollback
\* journal of each transaction that has executed an INSERT and not ended
OpenFiles ==
    conns + Cardinality({t \in Threads : threads[t].pc \in {"commit", "commit_raised"}})
          + (IF frame.pc = "exit" /\ frame.writes > 0 THEN 1 ELSE 0)

\* sqlite3.connect (and open) have a descriptor left for the file
CanConnect == OpenFiles < MaxConns

\* after sqlite3.connect a second descriptor is left for the rollback
\* journal the first INSERT creates
CanConnectAndWrite == OpenFiles + 1 < MaxConns

\* the connections the calls in progress refer to
Held ==
    (IF frame.connected THEN 1 ELSE 0)
        + Cardinality({t \in Threads : threads[t].pc \in {"select", "fetch", "insert", "insert_raised",
                                  "commit", "commit_raised"}})

\* the garbage collector frees, and so closes, connections no call holds: all
\* of them, or those of the generations it collects
Collect ==
    /\ \E n \in Held..(conns - 1) : conns' = n
    /\ UNCHANGED <<store, cache, last, added, written, hex, threads, raced, frame>>

\* a get_color_name that inserts a row for a key it did not find
GetOrCreateColorName(k) ==
    \E res \in {lru_get_color_name(store, cache, k)} :
        IF res.reads = 1 /\ ~CanConnect
        THEN /\ last' = [Call("get_color_name", k, "", NoFile, 0) EXCEPT
                             !.raised = TRUE]
             /\ UNCHANGED <<store, cache, added, written, aside, conns>>
        ELSE /\ conns' = conns + res.reads
             /\ store' = IF res.reads = 1 /\ find_color(store, k) = None
                         THEN db_add_color(store, k, "Unknown") ELSE store
             /\ cache' = res.cache
             /\ last' = [Call("get_color_name", k, "", NoFile, 0) EXCEPT
                             !.result = res.result, !.reads = res.reads, !.hit = res.hit,
                             !.again = (last.op = "get_color_name" /\ last.key = k
                                           /\ ~last.raised)]
             /\ UNCHANGED <<added, written, aside>>

\* get_color_name: a hit, or a miss that runs the body; sqlite3.connect in
\* find_color raises OperationalError when no descriptor is left, and a call
\* that raises stores nothing in the cache
GetColorName(k) ==
    \E res \in {lru_get_color_name(store, cache, k)} :
        IF res.reads = 1 /\ ~CanConnect
        THEN /\ last' = [Call("get_color_name", k, "", NoFile, 0) EXCEPT
                             !.raised = TRUE]
             /\ UNCHANGED <<store, cache, added, written, aside, conns>>
        ELSE /\ conns' = conns + res.reads
             /\ cache' = res.cache
             /\ last' = [Call("get_color_name", k, "", NoFile, 0) EXCEPT
                             !.result = res.result, !.reads = res.reads, !.hit = res.hit,
                             !.again = (last.op = "get_color_name" /\ last.key = k
                                           /\ ~last.raised)]
             /\ UNCHANGED <<store, added, written, aside>>

\* add_color: with no descriptor left sqlite3.connect raises; with one left
\* the connection is opened and the INSERT raises, the rollback journal
\* cannot be created; line 123 is not reached
AddColor(k, name) ==
    IF ~CanConnectAndWrite
    THEN /\ conns' = IF CanConnect THEN conns + 1 ELSE conns
         /\ last' = [Call("add_color", k, name, NoFile, 0) EXCEPT !.raised = TRUE]
         /\ UNCHANGED <<store, cache, added, written, aside>>
    ELSE \E res \in {lookup_add_color(store, cache, k, name)} :
            /\ conns' = conns + 1
            /\ store' = res.rows
            /\ cache' = res.cache
            /\ last' = [Call("add_color", k, name, NoFile, 0) EXCEPT
                            !.writes = 1,
                            !.cached = (cache # <<>>),
                            !.old = IF \E rec \in store : rec.key = k
                                    THEN Some((CHOOSE rec \in store : rec.key = k).name)
                                    ELSE None]
            /\ added' = [added EXCEPT ![k] = Some(name)]
            /\ written' = written \cup {k}
            /\ UNCHANGED aside

\* import_from_json: with no descriptor left open raises; with one left the
\* file is read and closed, the connection is opened and the first INSERT
\* the loop reaches raises; line 128 is not reached
ImportFromJson(f) ==
    \E res \in {lookup_import_from_json(store, cache, f)} :
        IF /\ ImportFiles[f].readable
           /\ ~CanConnect \/ (res.db.writes > 0 /\ ~CanConnectAndWrite)
        THEN /\ conns' = IF CanConnect THEN conns + 1 ELSE conns
             /\ last' = [Call("import_from_json", <<0, 0, 0>>, "", f, 0) EXCEPT
                             !.raised = TRUE, !.cached = (cache # <<>>)]
             /\ UNCHANGED <<store, cache, added, written, aside>>
        ELSE /\ conns' = IF ImportFiles[f].readable THEN conns + 1 ELSE conns
             /\ store' = res.db.rows
             /\ cache' = res.cache
             /\ last' = [Call("import_from_json", <<0, 0, 0>>, "", f, 0) EXCEPT
                             !.raised = res.db.raised, !.writes = res.db.writes,
                             !.cached = (cache # <<>>)]
             /\ \E keys \in {IF res.db.raised THEN {} ELSE BatchKeys[f]} :
                   /\ added' = [k \in AllKeys |-> IF k \in keys THEN None ELSE added[k]]
                   /\ written' = written \cup keys
             /\ UNCHANGED aside

\* a query answered from a snapshot taken before the add_color just made
FindSimilarSnapshot(q, threshold) ==
    IF ~CanConnect
    THEN /\ last' = [Call("find_similar_color", q, "", NoFile, threshold) EXCEPT
                         !.raised = TRUE]
         /\ UNCHANGED <<store, cache, added, written, aside, conns>>
    ELSE /\ conns' = conns + 1
         /\ \E rows \in find_similar_color(IF last.op = "add_color" /\ ~last.raised
                                            THEN {rec \in store : rec.key # last.key}
                                            ELSE store, q, threshold) :
               last' = [Call("find_similar_color", q, "", NoFile, threshold) EXCEPT
                            !.rows = rows, !.reads = 1]
         /\ UNCHANGED <<store, cache, added, written, aside>>

\* find_similar_color: sqlite3.connect raises when no descriptor is left
FindSimilarColor(q, threshold) ==
    IF ~CanConnect
    THEN /\ last' = [Call("find_similar_color", q, "", NoFile, threshold) EXCEPT
                         !.raised = TRUE]
         /\ UNCHANGED <<store, cache, added, written, aside, conns>>
    ELSE /\ conns' = conns + 1
         /\ \E rows \in find_similar_color(store, q, threshold) :
               last' = [Call("find_similar_color", q, "", NoFile, threshold) EXCEPT
                            !.rows = rows, !.reads = 1]
         /\ UNCHANGED <<store, cache, added, written, aside>>

Next ==
    \/ \E k \in ResolveKeys : GetColorName(k)
    \/ \E call \in AddCalls : AddColor(call[1], call[2])
    \/ \E f \in FileIds : ImportFromJson(f)
    \/ \E query \in SimilarQueries : FindSimilarColor(query[1], query[2])
    \/ Collect

Spec == Init /\ [][Next]_vars

----------------------------------------------------------------------------
(* hex_to_rgb applied to every string of a bounded set *)

\* longest argument drawn from HexAlphabet
MaxHexLen == 7

\* '#', a hex digit, a letter that is no hex digit, a sign
HexAlphabet == {"#", "f", "z", "-"}

\* the strings the spec and the docstrings name, and one of five digits
\* ("zzzzzz" is a string over HexAlphabet as well)
HexExamples ==
    {<<"f", "0", "a">>, <<"f", "f", "0", "0", "a", "a">>,
     <<"#", "F", "F", "F", "F", "F", "F">>, <<"1", "2">>,
     <<"z", "z", "z", "z", "z", "z">>, <<"1", "2", "3", "4", "5">>,
     <<" ", "f", "_", "f", "0", "x">>, <<"\t", "f", "f", "\n", "U+00A0", "f">>,
     <<"U+0663", "f", "f", "U+FF13", "0", "U+0669">>}

HexInputs ==
    UNION {[1..n -> HexAlphabet] : n \in 0..MaxHexLen} \cup HexExamples

HexInit ==
    /\ store = {}
    /\ cache = <<>>
    /\ last = Call("init", <<0, 0, 0>>, "", NoFile, 0)
    /\ added = [k \in AllKeys |-> None]
    /\ written = {}
    /\ hex \in {[hex_str |-> s, pc |-> "call", result |-> None] : s \in HexInputs}
    /\ threads = [t \in Threads |-> IdleThread]
    /\ raced = {}
    /\ frame = NoFrame
    /\ conns = 0

HexToRgb ==
    /\ hex.pc = "call"
    /\ hex' = [hex EXCEPT !.pc = "done", !.result = hex_to_rgb(hex.hex_str)]
    /\ UNCHANGED <<store, cache, last, added, written, threads, raced, frame, conns>>

HexNext == HexToRgb

HexSpec == HexInit /\ [][HexNext]_vars

----------------------------------------------------------------------------
(* Two threads calling get_color_name and add_color of one ColorLookup.    *)
(* Nothing in the class locks: the lru_cache wrapper looks the key up,     *)
(* calls the method body outside any lock and stores the result when the   *)
(* call returns; add_color writes the row and then clears the cache.       *)
(* Each step below is one access to the cache or one call into sqlite3     *)
(* (connect, execute, fetchone, commit, the rollback of the with           *)
(* statement's exit), between which the threads may switch. The exit of a  *)
(* with statement whose connection holds neither a lock nor a journal      *)
(* changes nothing another thread can see and is part of the step before.  *)

ConcResolveKeys == {<<255, 0, 0>>, <<999, 999, 999>>}
ConcAddCalls    ==
    {<<<<255, 0, 0>>, "Bright Red">>, <<<<255, 0, 0>>, "Deep Blue">>,
     <<<<999, 999, 999>>, "Deep Blue">>}

\* the wrapper after the body returned: the result is stored unless another
\* thread stored the key in the meantime
cache_put_if_absent(c, args, val) ==
    IF cache_get(c, args) # None THEN c ELSE cache_put(c, args, val)

\* the call of thread t raises to its caller
Raise(t, op) ==
    /\ threads' = [threads EXCEPT ![t] = IdleThread]
    /\ last' = [Call(op, threads[t].key, threads[t].name, NoFile, 0) EXCEPT
                    !.raised = TRUE]

\* the wrapper finds the key: the call returns the cached value
LookupHit(t, k) ==
    /\ threads[t].pc = "idle"
    /\ cache_get(cache, k) # None
    /\ cache' = cache_touch(cache, k)
    /\ last' = [Call("get_color_name", k, "", NoFile, 0) EXCEPT
                    !.result = cache_get(cache, k)[1], !.hit = TRUE]
    /\ UNCHANGED <<store, added, written, hex, threads, raced, frame, conns>>

\* the wrapper misses and calls the body
LookupMiss(t, k) ==
    /\ threads[t].pc = "idle"
    /\ cache_get(cache, k) = None
    /\ threads' = [threads EXCEPT ![t] = Running("body", k, "")]
    /\ UNCHANGED <<store, cache, last, added, written, hex, raced, frame, conns>>

\* the body up to the with statement of find_color: the range check (line
\* 114) returns, or sqlite3.connect (line 85) opens the file or raises
Body(t) ==
    /\ threads[t].pc = "body"
    /\ IF ~ValidRGB(threads[t].key)
       THEN /\ threads' = [threads EXCEPT
                              ![t].pc = "put",
                              ![t].val = get_color_name_body(store, threads[t].key).result]
            /\ UNCHANGED <<last, conns>>
       ELSE IF CanConnect
       THEN /\ threads' = [threads EXCEPT ![t].pc = "select"]
            /\ conns' = conns + 1
            /\ UNCHANGED last
       ELSE /\ Raise(t, "get_color_name")
            /\ UNCHANGED conns
    /\ UNCHANGED <<store, cache, added, written, hex, raced, frame>>

\* a get_color_name holds the read lock of the database: its SELECT has
\* found a row and fetchone has not yet ended the statement
ReadLocked == \E u \in Threads : threads[u].pc = "fetch" /\ threads[u].locked

\* an add_color holds the write lock of the database: it has executed its
\* INSERT, or the INSERT or the commit has raised, and the with statement
\* has not yet committed or rolled back
WriteLocked ==
    \E u \in Threads : threads[u].pc \in {"commit", "commit_raised", "insert_raised"}

\* an add_color whose commit timed out keeps the pending lock the commit
\* took until the with statement rolls back: no other connection can read
PendingLocked == \E u \in Threads : threads[u].pc = "commit_raised"

\* cursor.execute of find_color (lines 86-90) reads the committed rows: the
\* statement stops at the row of the key, holding the read lock, or ends
\* with no row; it waits while another connection holds the pending lock
Select(t) ==
    /\ threads[t].pc = "select"
    /\ ~PendingLocked
    /\ \E body \in {get_color_name_body(store, threads[t].key)} :
          threads' = [threads EXCEPT ![t].pc = "fetch", ![t].val = body.result,
                                      ![t].reads = body.reads,
                                      ![t].locked = (find_color(store, threads[t].key) # None)]
    /\ UNCHANGED <<store, cache, last, added, written, hex, raced, frame, conns>>

\* the SELECT has waited for the read lock as long as the connection's
\* timeout (5 s) lets it: OperationalError, database is locked; nothing is
\* cached
SelectTimesOut(t) ==
    /\ threads[t].pc = "select"
    /\ PendingLocked
    /\ Raise(t, "get_color_name")
    /\ UNCHANGED <<store, cache, added, written, hex, raced, frame, conns>>

\* cursor.fetchone() (line 91) takes the row, which ends the statement and
\* releases the read lock, and the body returns the name or "Unknown"
Fetch(t) ==
    /\ threads[t].pc = "fetch"
    /\ threads' = [threads EXCEPT ![t].pc = "put", ![t].locked = FALSE]
    /\ UNCHANGED <<store, cache, last, added, written, hex, raced, frame, conns>>

\* the wrapper stores the value the body returned and returns it
Put(t) ==
    /\ threads[t].pc = "put"
    /\ cache' = cache_put_if_absent(cache, threads[t].key, threads[t].val)
    /\ last' = [Call("get_color_name", threads[t].key, "", NoFile, 0) EXCEPT
                    !.result = threads[t].val, !.reads = threads[t].reads]
    /\ raced' = IF threads[t].overtaken /\ cache_get(cache, threads[t].key) = None
                THEN raced \cup {threads[t].key} ELSE raced
    /\ threads' = [threads EXCEPT ![t] = IdleThread]
    /\ UNCHANGED <<store, added, written, hex, frame, conns>>

\* add_color, line 52: sqlite3.connect opens the file or raises
Write(t, k, name) ==
    /\ threads[t].pc = "idle"
    /\ IF CanConnect
       THEN /\ threads' = [threads EXCEPT ![t] = Running("insert", k, name)]
            /\ conns' = conns + 1
            /\ UNCHANGED last
       ELSE /\ last' = [Call("add_color", k, name, NoFile, 0) EXCEPT !.raised = TRUE]
            /\ UNCHANGED <<threads, conns>>
    /\ UNCHANGED <<store, cache, added, written, hex, raced, frame>>

\* add_color, lines 54-57: the INSERT takes the write lock of the database,
\* for which it waits while another connection holds it, and creates the
\* rollback journal; when no descriptor is left for the journal it raises
\* with the write lock taken
Insert(t) ==
    /\ threads[t].pc = "insert"
    /\ ~WriteLocked
    /\ threads' = [threads EXCEPT
                       ![t].pc = IF CanConnect THEN "commit" ELSE "insert_raised"]
    /\ UNCHANGED <<store, cache, last, added, written, hex, raced, frame, conns>>

\* the INSERT has waited for the write lock as long as the connection's
\* timeout (5 s) lets it: OperationalError, database is locked; the
\* connection holds no lock, and add_color raises
InsertTimesOut(t) ==
    /\ threads[t].pc = "insert"
    /\ WriteLocked
    /\ Raise(t, "add_color")
    /\ UNCHANGED <<store, cache, added, written, hex, raced, frame, conns>>

\* add_color, line 59: conn.commit() takes the exclusive lock, for which it
\* waits while a reader holds the read lock, makes the row visible and
\* removes the journal; a get_color_name of the key that has read the table
\* and not yet stored its result is overtaken
Commit(t) ==
    /\ threads[t].pc = "commit"
    /\ ~ReadLocked
    /\ store' = db_add_color(store, threads[t].key, threads[t].name)
    /\ threads' = [u \in Threads |->
                      IF u = t THEN [threads[t] EXCEPT !.pc = "clear"]
                      ELSE IF /\ threads[u].pc \in {"fetch", "put"}
                              /\ threads[u].key = threads[t].key
                           THEN [threads[u] EXCEPT !.overtaken = TRUE]
                           ELSE threads[u]]
    /\ added' = [added EXCEPT ![threads[t].key] = Some(threads[t].name)]
    /\ written' = written \cup {threads[t].key}
    /\ UNCHANGED <<cache, last, hex, raced, frame, conns>>

\* conn.commit() has waited for the exclusive lock as long as the timeout
\* lets it: OperationalError, database is locked. The transaction stays
\* open with its journal and the pending lock
CommitTimesOut(t) ==
    /\ threads[t].pc = "commit"
    /\ ReadLocked
    /\ threads' = [threads EXCEPT ![t].pc = "commit_raised"]
    /\ UNCHANGED <<store, cache, last, added, written, hex, raced, frame, conns>>

\* the exception of the INSERT or of the commit leaves the with statement
\* (line 52), whose exit rolls the transaction back: the locks are released
\* and the journal is removed; add_color logs and raises (lines 61-63) and
\* line 123 is not reached
Rollback(t) ==
    /\ threads[t].pc \in {"insert_raised", "commit_raised"}
    /\ Raise(t, "add_color")
    /\ UNCHANGED <<store, cache, added, written, hex, raced, frame, conns>>

\* an add_color that returns without clearing the cache
ClearKeepsCache(t) ==
    /\ threads[t].pc = "clear"
    /\ cache' = cache
    /\ raced' = {}
    /\ last' = [Call("add_color", threads[t].key, threads[t].name, NoFile, 0) EXCEPT
                    !.writes = 1, !.cached = (cache # <<>>)]
    /\ threads' = [threads EXCEPT ![t] = IdleThread]
    /\ UNCHANGED <<store, added, written, hex, frame, conns>>

\* add_color, line 123: cache_clear(), and the call returns
Clear(t) ==
    /\ threads[t].pc = "clear"
    /\ cache' = cache_clear(cache)
    /\ raced' = {}
    /\ last' = [Call("add_color", threads[t].key, threads[t].name, NoFile, 0) EXCEPT
                    !.writes = 1, !.cached = (cache # <<>>)]
    /\ threads' = [threads EXCEPT ![t] = IdleThread]
    /\ UNCHANGED <<store, added, written, hex, frame, conns>>

ConcNext ==
    \/ \E t \in Threads :
          \/ \E k \in ConcResolveKeys : LookupHit(t, k)
          \/ \E k \in ConcResolveKeys : LookupMiss(t, k)
          \/ Body(t)
          \/ Select(t)
          \/ SelectTimesOut(t)
          \/ Fetch(t)
          \/ Put(t)
          \/ \E call \in ConcAddCalls : Write(t, call[1], call[2])
          \/ Insert(t)
          \/ InsertTimesOut(t)
          \/ Commit(t)
          \/ CommitTimesOut(t)
          \/ Rollback(t)
          \/ Clear(t)
    \/ Collect

ConcSpec == Init /\ [][ConcNext]_vars

----------------------------------------------------------------------------
(* The connection of each call that reads or writes the table: every such  *)
(* call runs "with sqlite3.connect(self.db_path) as conn:". The with       *)
(* statement of a sqlite3 connection commits or rolls back and closes      *)
(* nothing; no call of close() is made, and _release_connection is never   *)
(* called. A connection is closed when the garbage collector frees it.     *)
(* The constructor's _initialize_db has left one open the same way.        *)

ConnCalls ==
    {StoreCall("add_color", call[1], call[2], NoFile, 0) :
        call \in {<<<<255, 0, 0>>, "Bright Red">>, <<<<999, 999, 999>>, "">>}}
    \cup {StoreCall("bulk_import_from_json", <<0, 0, 0>>, "", f, 0) : f \in {1, 2, 3, 4}}
    \cup {StoreCall("find_color", k, "", NoFile, 0) :
             k \in {<<255, 0, 0>>, <<1000, 0, 0>>}}
    \cup {StoreCall("find_similar_color", <<250, 0, 0>>, "", NoFile, 10)}

\* the statements of a call that precede its with statement end it: the
\* range check of find_color (line 83), open and json.load (lines 67-68);
\* open raises OSError when the process has no descriptor left
EndsBeforeConnect(call) ==
    \/ call.op = "find_color" /\ ~InRange(call.key)
    \/ call.op = "bulk_import_from_json"
          /\ (~ImportFiles[call.file].readable \/ conns = MaxConns)

\* the call record of frame f when it returns
Returned(f) ==
    [Call(f.op, f.key, f.name, f.file, f.threshold) EXCEPT
        !.raised = f.raised, !.result = f.result, !.rows = f.rows,
        !.reads = f.reads, !.writes = f.writes]

\* a call that ends before it connects: find_color returns None, the import
\* raises
CallWithoutConnection(call) ==
    /\ frame.pc = "idle"
    /\ EndsBeforeConnect(call)
    /\ last' = Returned(IF call.op = "find_color"
                        THEN [call EXCEPT !.result = None]
                        ELSE [call EXCEPT !.raised = TRUE])
    /\ UNCHANGED <<store, cache, added, written, hex, threads, raced, frame, conns>>

\* a call reaches its with statement
CallStore(call) ==
    /\ frame.pc = "idle"
    /\ ~EndsBeforeConnect(call)
    /\ frame' = [call EXCEPT !.pc = "connect"]
    /\ UNCHANGED <<store, cache, last, added, written, hex, threads, raced, conns>>

\* sqlite3.connect(self.db_path) opens the file
Connect ==
    /\ frame.pc = "connect"
    /\ conns < MaxConns
    /\ conns' = conns + 1
    /\ frame' = [frame EXCEPT !.pc = "body", !.connected = TRUE, !.txn = store]
    /\ UNCHANGED <<store, cache, last, added, written, hex, threads, raced>>

\* sqlite3.connect raises OperationalError: no file can be opened any more
ConnectFails ==
    /\ frame.pc = "connect"
    /\ conns = MaxConns
    /\ frame' = NoFrame
    /\ last' = Returned([frame EXCEPT !.raised = TRUE])
    /\ UNCHANGED <<store, cache, added, written, hex, threads, raced, conns>>

\* the block of the with statement of frame f, run in the connection's
\* transaction: the frames it may end in. The first INSERT creates the
\* rollback journal and raises OperationalError when no descriptor is free
\* for it (journal false); the loop of an import may raise before or after
\* that; a SELECT opens no file
Block(f, journal) ==
    CASE f.op = "add_color" ->
            IF journal
            THEN {[f EXCEPT !.txn = InsertOrReplace(f.txn, f.key, f.name), !.writes = 1]}
            ELSE {[f EXCEPT !.raised = TRUE]}
      [] f.op = "bulk_import_from_json" ->
            LET loop == ImportLoop(f.txn, f.file, 1, 0)
            IN  IF ~journal /\ loop.writes > 0
                THEN {[f EXCEPT !.raised = TRUE]}
                ELSE {[f EXCEPT !.txn = loop.txn, !.raised = ~loop.ok,
                                !.writes = loop.writes]}
      [] f.op = "find_color" ->
            {[f EXCEPT !.result = find_color(f.txn, f.key), !.reads = 1]}
      [] f.op = "find_similar_color" ->
            {[f EXCEPT !.rows = rows, !.reads = 1] :
                rows \in find_similar_color(f.txn, f.key, f.threshold)}

\* the block runs; the call's own connection is one of the conns open
Execute ==
    /\ frame.pc = "body"
    /\ \E f \in Block(frame, conns < MaxConns) : frame' = [f EXCEPT !.pc = "exit"]
    /\ UNCHANGED <<store, cache, last, added, written, hex, threads, raced, conns>>

\* the with statement ends: commit, or rollback when the block raised; the
\* connection stays open
Exit ==
    /\ frame.pc = "exit"
    /\ store' = ConnectionExit(store, [ok |-> ~frame.raised, txn |-> frame.txn,
                                       writes |-> frame.writes]).rows
    /\ frame' = [frame EXCEPT !.pc = "return"]
    /\ UNCHANGED <<cache, last, added, written, hex, threads, raced, conns>>

\* the call returns or raises to its caller: conn goes out of scope, open
Return ==
    /\ frame.pc = "return"
    /\ frame' = NoFrame
    /\ last' = Returned(frame)
    /\ UNCHANGED <<store, cache, added, written, hex, threads, raced, conns>>

ConnNext ==
    \/ \E call \in ConnCalls : CallWithoutConnection(call)
    \/ \E call \in ConnCalls : CallStore(call)
    \/ Connect
    \/ ConnectFails
    \/ Execute
    \/ Exit
    \/ Return
    \/ Collect

ConnSpec == Init /\ [][ConnNext]_vars

----------------------------------------------------------------------------
(* Two ColorLookup instances. lru_cache decorates the function in the      *)
(* class body, so there is one cache for the class; a call's arguments,    *)
(* the cache key, are (self, r, g, b), and self.get_color_name.cache_clear *)
(* empties that one cache. Both instances are made with the default        *)
(* db_path "colors.db" (line 98) and so read and write one table.          *)

Instances == {"a", "b"}

InstKeys  == {<<255, 0, 0>>, <<1000, 0, 0>>}
InstAdds  == {<<<<255, 0, 0>>, "Bright Red">>}
InstFiles == {1, 3}

\* the ways a call of get_color_name is written: the parameters passed by
\* keyword, in the order written; the parameters before them are passed by
\* position (<<>>: self.get_color_name(r, g, b))
CallForms ==
    {<<>>, <<"b">>, <<"g", "b">>, <<"b", "g">>,
     <<"r", "g", "b">>, <<"r", "b", "g">>, <<"g", "r", "b">>,
     <<"g", "b", "r">>, <<"b", "r", "g">>, <<"b", "g", "r">>}

\* the forms the calls are made in
InstForms == {<<>>, <<"r", "g", "b">>}

ParamIndex(p) == CASE p = "r" -> 1 [] p = "g" -> 2 [] p = "b" -> 3

\* the keyword arguments as lru_cache appends them to the key: name, value
RECURSIVE KeywordItems(_, _)
KeywordItems(form, k) ==
    IF form = <<>> THEN <<>>
    ELSE <<Head(form), k[ParamIndex(Head(form))]>> \o KeywordItems(Tail(form), k)

\* the key lru_cache makes of a call self.get_color_name(...) of key k
\* written in form: the positional arguments, self first, then, when there
\* are keyword arguments, a mark and their names and values
MethodArgs(self, k, form) ==
    <<self>> \o SubSeq(k, 1, 3 - Len(form))
        \o (IF form = <<>> THEN <<>> ELSE <<"kwd_mark">> \o KeywordItems(form, k))

\* the cached get_color_name of the class: [result, reads, hit, cache]
method_get_color_name(rows, c, self, k, form) ==
    LET cached == cache_get(c, MethodArgs(self, k, form))
    IN  IF cached # None
        THEN [result |-> cached[1], reads |-> 0, hit |-> TRUE,
              cache  |-> cache_touch(c, MethodArgs(self, k, form))]
        ELSE LET body == get_color_name_body(rows, k)
             IN  [result |-> body.result, reads |-> body.reads, hit |-> FALSE,
                  cache  |-> cache_put(c, MethodArgs(self, k, form), body.result)]

\* two instances have been constructed: each constructor left a connection
InstInit ==
    /\ store = {}
    /\ cache = <<>>
    /\ last = Call("init", <<0, 0, 0>>, "", NoFile, 0)
    /\ added = [k \in AllKeys |-> None]
    /\ written = {}
    /\ hex = NoHexCall
    /\ threads = [t \in Threads |-> IdleThread]
    /\ raced = {}
    /\ frame = NoFrame
    /\ conns = 2

\* a call of an instance that raises
InstRaises(self, call) == [call EXCEPT !.self = self, !.raised = TRUE]

InstGetColorName(self, k, form) ==
    \E res \in {method_get_color_name(store, cache, self, k, form)} :
        IF res.reads = 1 /\ ~CanConnect
        THEN /\ last' = [InstRaises(self, Call("get_color_name", k, "", NoFile, 0))
                            EXCEPT !.form = form]
             /\ UNCHANGED <<store, cache, added, written, aside, conns>>
        ELSE /\ conns' = conns + res.reads
             /\ cache' = res.cache
             /\ last' = [Call("get_color_name", k, "", NoFile, 0) EXCEPT
                             !.self = self, !.form = form,
                             !.result = res.result, !.reads = res.reads, !.hit = res.hit,
                             !.evicted = CachedKeys(cache) \ CachedKeys(res.cache),
                             !.lost = (last.op = "get_color_name"
                                         /\ MethodArgs(self, k, form) \in last.evicted)]
             /\ UNCHANGED <<store, added, written, aside>>

\* an add_color that clears the entries of its own instance only
InstAddColorOwnEntries(self, k, name) ==
    IF ~CanConnectAndWrite
    THEN /\ conns' = IF CanConnect THEN conns + 1 ELSE conns
         /\ last' = InstRaises(self, Call("add_color", k, name, NoFile, 0))
         /\ UNCHANGED <<store, cache, added, written, aside>>
    ELSE \E res \in {lookup_add_color(store, cache, k, name)} :
            /\ conns' = conns + 1
            /\ store' = res.rows
            /\ cache' = SelectSeq(cache, LAMBDA e : e.args[1] # self)
            /\ last' = [Call("add_color", k, name, NoFile, 0) EXCEPT
                            !.self = self, !.writes = 1, !.cached = (cache # <<>>),
                            !.evicted = {args \in CachedKeys(cache) : args[1] = self}]
            /\ added' = [added EXCEPT ![k] = Some(name)]
            /\ written' = written \cup {k}
            /\ UNCHANGED aside

InstAddColor(self, k, name) ==
    IF ~CanConnectAndWrite
    THEN /\ conns' = IF CanConnect THEN conns + 1 ELSE conns
         /\ last' = InstRaises(self, Call("add_color", k, name, NoFile, 0))
         /\ UNCHANGED <<store, cache, added, written, aside>>
    ELSE \E res \in {lookup_add_color(store, cache, k, name)} :
            /\ conns' = conns + 1
            /\ store' = res.rows
            /\ cache' = res.cache
            /\ last' = [Call("add_color", k, name, NoFile, 0) EXCEPT
                            !.self = self, !.writes = 1, !.cached = (cache # <<>>),
                            !.evicted = CachedKeys(cache) \ CachedKeys(res.cache)]
            /\ added' = [added EXCEPT ![k] = Some(name)]
            /\ written' = written \cup {k}
            /\ UNCHANGED aside

InstImportFromJson(self, f) ==
    \E res \in {lookup_import_from_json(store, cache, f)} :
        IF /\ ImportFiles[f].readable
           /\ ~CanConnect \/ (res.db.writes > 0 /\ ~CanConnectAndWrite)
        THEN /\ conns' = IF CanConnect THEN conns + 1 ELSE conns
             /\ last' = [InstRaises(self, Call("import_from_json", <<0, 0, 0>>, "", f, 0))
                            EXCEPT !.cached = (cache # <<>>)]
             /\ UNCHANGED <<store, cache, added, written, aside>>
        ELSE /\ conns' = IF ImportFiles[f].readable THEN conns + 1 ELSE conns
             /\ store' = res.db.rows
             /\ cache' = res.cache
             /\ last' = [Call("import_from_json", <<0, 0, 0>>, "", f, 0) EXCEPT
                             !.self = self,
                             !.raised = res.db.raised, !.writes = res.db.writes,
                             !.cached = (cache # <<>>),
                             !.evicted = CachedKeys(cache) \ CachedKeys(res.cache)]
             /\ \E keys \in {IF res.db.raised THEN {} ELSE BatchKeys[f]} :
                   /\ added' = [k \in AllKeys |-> IF k \in keys THEN None ELSE added[k]]
                   /\ written' = written \cup keys
             /\ UNCHANGED aside

InstNext ==
    \/ \E self \in Instances :
          \/ \E k \in InstKeys, form \in InstForms : InstGetColorName(self, k, form)
          \/ \E call \in InstAdds : InstAddColor(self, call[1], call[2])
          \/ \E f \in InstFiles : InstImportFromJson(self, f)
    \/ Collect

InstSpec == InstInit /\ [][InstNext]_vars

----------------------------------------------------------------------------
(* Vocabulary of the properties, stated apart from the code's own checks   *)

\* a ColorKey: every component in [0, 999]
ValidKey(k) == \A i \in 1..3 : k[i] \in MinComponent..MaxComponent

\* |dr| + |dg| + |db|
Manhattan(a, b) ==
    LET d(i) == IF a[i] < b[i] THEN b[i] - a[i] ELSE a[i] - b[i]
    IN  d(1) + d(2) + d(3)

RecordsAt(rows, k) == {rec \in rows : rec.key = k}

\* get_color_name, find_similar_color, add_color have returned (not raised)
Resolved == last.op = "get_color_name" /\ ~last.raised
Queried  == last.op = "find_similar_color" /\ ~last.raised
Added    == last.op = "add_color" /\ ~last.raised

\* the step is the end of a call, not a run of the garbage collector
CallReturns == conns' >= conns
Wrote    == last.op \in {"add_color", "import_from_json"} /\ ~last.raised

\* import keys with a non-integer component or a wrong number of components
MalformedKeys == {S_float, S_two}
HasMalformed(f) ==
    \E i \in 1..Len(ImportFiles[f].items) : ImportFiles[f].items[i].rgb_str \in MalformedKeys

\* what get_color_name has to report for a key in range given the rows: the
\* name of the key's row, "Unknown" when there is no row or its name is empty
NameAt(rows, k) ==
    IF RecordsAt(rows, k) = {} THEN None
    ELSE Some((CHOOSE rec \in RecordsAt(rows, k) : TRUE).name)
Expected(rows, k) ==
    IF NameAt(rows, k) \in {None, Some("")} THEN "Unknown" ELSE NameAt(rows, k)[1]

\* the files whose import the store cannot complete: unreadable, a malformed
\* key, a null name
FailingFiles ==
    {f \in FileIds :
        \/ ~ImportFiles[f].readable
        \/ HasMalformed(f)
        \/ \E i \in 1..Len(ImportFiles[f].items) : ImportFiles[f].items[i].name = None}

\* the store after every record of file f has been applied to rows: each key
\* of the batch holds the name of its last item, every other row is as before
AllApplied(rows, f) ==
    LET items == ImportFiles[f].items
        n     == Len(items)
        lastAt(k) == CHOOSE i \in 1..n :
                        /\ ParsedKeys[f][i] = Some(k)
                        /\ \A j \in (i + 1)..n : ParsedKeys[f][j] # Some(k)
    IN  {rec \in rows : rec.key \notin BatchKeys[f]}
            \cup {[key |-> k, name |-> items[lastAt(k)].name[1]] : k \in BatchKeys[f]}

----------------------------------------------------------------------------
(* C1..C10 *)

\* C1: once add_color(r, g, b, name) has returned for a key in range, every
\* get_color_name(r, g, b) returns exactly name, for every name, until a
\* later add_color or import rewrites the key (added holds that name).
C1_AddThenResolve ==
    (Resolved /\ ValidKey(last.key) /\ added[last.key] # None)
        => last.result = added[last.key][1]

\* C1, non-empty names only: the statement above holds of every name but "".
C1_AddThenResolveNonEmpty ==
    (Resolved /\ ValidKey(last.key) /\ added[last.key] # None /\ added[last.key] # Some(""))
        => last.result = added[last.key][1]

\* C2: get_color_name of a key in range that was never written returns
\* "Unknown", and a repeated call (a call for the key of the call before it)
\* returns that value from the cache, without calling find_color.
C2_NegativeCaching ==
    (Resolved /\ ValidKey(last.key) /\ last.key \notin written)
        => /\ last.result = "Unknown"
           /\ last.again => (last.hit /\ last.reads = 0)

\* a repeated call for a key never written
C2_Witness ==
    /\ Resolved /\ ValidKey(last.key) /\ last.key \notin written
    /\ last.again /\ last.reads = 0 /\ last.result = "Unknown"

\* C3: the store never holds two records with one key, and after add_color
\* has returned the key holds exactly one record, with the name of that call.
C3_Upsert ==
    /\ \A a \in store, b \in store : a.key = b.key => a = b
    /\ Added
          => RecordsAt(store, last.key) = {[key |-> last.key, name |-> last.name]}

\* add_color on a key that held another name
C3_Witness ==
    /\ Added /\ last.old # None /\ last.old # Some(last.name)
    /\ Cardinality(store) >= 2

\* C4: after an add_color or an import that returned, the cache holds no
\* entry, and the next get_color_name of any key in range is no hit: it calls
\* find_color, which reads the table or raises the storage's error.
C4_WholeCacheCleared ==
    [][ /\ (last'.op \in {"add_color", "import_from_json"} /\ ~last'.raised)
              => cache' = <<>>
        /\ (Wrote /\ last'.op = "get_color_name" /\ ValidKey(last'.key))
              => (~last'.hit /\ (last'.reads = 1 \/ last'.raised)) ]_vars

\* a write that began with cached entries and left none
C4_Witness ==
    Wrote /\ last.cached /\ cache = <<>>

\* C5: an import whose store call fails raises to the caller and leaves the
\* cache as it was; the cache changes only when the import returned.
C5_ImportFailureKeepsCache ==
    [][ last'.op = "import_from_json"
          => /\ last'.file \in FailingFiles => (last'.raised /\ cache' = cache)
             /\ cache' # cache => ~last'.raised ]_vars

\* a failed import with entries still cached
C5_Witness ==
    /\ last.op = "import_from_json" /\ last.raised
    /\ last.cached /\ cache # <<>>

\* C6: an import either applies every record of the batch or leaves the
\* store as it was; a batch with a malformed key anywhere raises and stores
\* nothing.
C6_ImportAtomic ==
    [][ last'.op = "import_from_json"
          => /\ store' = IF last'.raised THEN store ELSE AllApplied(store, last'.file)
             /\ HasMalformed(last'.file) => (last'.raised /\ store' = store) ]_vars

\* a batch that failed at a malformed key after executing a statement whose
\* row the store does not hold
C6_Witness ==
    /\ last.op = "import_from_json" /\ last.raised /\ HasMalformed(last.file)
    /\ last.writes >= 1
    /\ [key  |-> ParsedKeys[last.file][1][1],
        name |-> ImportFiles[last.file].items[1].name[1]] \notin store

\* C7: get_color_name returns "Invalid RGB value" for a key with a component
\* outside [0, 999], and for a key in range the stored name or "Unknown".
C7_RangeBoundary ==
    Resolved =>
        IF ValidKey(last.key)
        THEN /\ RecordsAt(store, last.key) = {} => last.result = "Unknown"
             /\ \A rec \in RecordsAt(store, last.key) :
                    rec.name # "" => last.result = rec.name
             /\ \/ last.result = "Unknown"
                \/ \E rec \in RecordsAt(store, last.key) : rec.name = last.result
        ELSE last.result = "Invalid RGB value"

\* the upper boundary resolved to its stored name
C7_Witness ==
    Resolved /\ last.key = <<999, 999, 999>> /\ last.result = "Bright Red"

\* C8, get_color_name only: a call with a component outside [0, 999] does
\* not call find_color and changes neither the store nor the result of a
\* later call for a key in range.
C8_ResolveOutOfRange ==
    [][ /\ (last'.op = "get_color_name" /\ ~ValidKey(last'.key))
              => (last'.reads = 0 /\ store' = store)
        /\ (last'.op = "get_color_name" /\ ValidKey(last'.key) /\ ~last'.raised)
              => last'.result = get_color_name_body(store, last'.key).result ]_vars

\* C8: a call with invalid input (get_color_name out of range, add_color with
\* a negative component or an empty name, an import with a malformed key)
\* makes no store access.
C8_FailFast ==
    ( \/ Resolved /\ ~ValidKey(last.key)
      \/ last.op = "add_color" /\ ((\E i \in 1..3 : last.key[i] < 0) \/ last.name = "")
      \/ last.op = "import_from_json" /\ HasMalformed(last.file) )
        => (last.reads = 0 /\ last.writes = 0)

\* C9: add_color with a negative component or an empty name is rejected and
\* leaves the store and the cache unchanged.
C9_AddColorValidates ==
    [][ (last'.op = "add_color"
            /\ ((\E i \in 1..3 : last'.key[i] < 0) \/ last'.name = ""))
          => (last'.raised /\ store' = store /\ cache' = cache) ]_vars

\* C10: find_similar_color returns exactly the stored records within
\* Manhattan distance threshold of the centre, each once with its distance,
\* in non-decreasing distance.
C10_FindSimilar ==
    Queried =>
        LET rows == last.rows
            q    == last.key
        IN  /\ {rows[i] : i \in 1..Len(rows)}
                  = {<<rec.key[1], rec.key[2], rec.key[3], rec.name, Manhattan(rec.key, q)>> :
                        rec \in {x \in store : Manhattan(x.key, q) <= last.threshold}}
            /\ \A i \in 1..Len(rows), j \in 1..Len(rows) : rows[i] = rows[j] => i = j
            /\ \A i \in 1..(Len(rows) - 1) : rows[i][5] <= rows[i + 1][5]
            /\ last.threshold = 0
                  => \A i \in 1..Len(rows) : <<rows[i][1], rows[i][2], rows[i][3]>> = q
            /\ last.threshold < 0 => rows = <<>>
            /\ (q = <<250, 0, 0>> /\ last.threshold = 10
                    /\ RecordsAt(store, <<255, 0, 0>>) # {})
                  => \E rec \in store : rows[1] = <<255, 0, 0, rec.name, 5>>

\* find_similar(250, 0, 0, 10) with (255, 0, 0) and further records stored
C10_Witness ==
    /\ last.op = "find_similar_color" /\ last.key = <<250, 0, 0>> /\ last.threshold = 10
    /\ last.rows = << <<255, 0, 0, "Bright Red", 5>> >>
    /\ Cardinality(store) >= 3

\* rows at equal distance returned together with a farther one
C10_TieWitness ==
    /\ last.op = "find_similar_color" /\ Len(last.rows) = 3
    /\ last.rows[1][5] = last.rows[2][5] /\ last.rows[2][5] < last.rows[3][5]

----------------------------------------------------------------------------
(* C11..C20 *)

\* C11: find_similar_color answers from the store as it is now: each key
\* whose latest write is an add_color (added, whatever get_color_name calls
\* came before or after it) and each record of an import that has just
\* returned is in the result with exactly the name written, once the
\* threshold covers it, and no row of the result holds an older name.
C11_FindSimilarLive ==
    [][ (last'.op = "find_similar_color" /\ ~last'.raised) =>
          LET got == {last'.rows[i] : i \in 1..Len(last'.rows)}
              q   == last'.key
              row(k, name) == <<k[1], k[2], k[3], name, Manhattan(k, q)>>
              latest == {[key |-> k, name |-> added[k][1]] :
                            k \in {x \in AllKeys : added[x] # None}}
                        \cup (IF last.op = "import_from_json" /\ ~last.raised
                              THEN AllApplied({}, last.file) ELSE {})
          IN  \A rec \in latest :
                 /\ Manhattan(rec.key, q) <= last'.threshold => row(rec.key, rec.name) \in got
                 /\ \A r \in got : <<r[1], r[2], r[3]>> = rec.key => r[4] = rec.name ]_vars

\* a query that returns the name of the latest add_color at (999, 999, 999),
\* with get_color_name called and cached after that write
C11_Witness ==
    /\ Queried
    /\ added[<<999, 999, 999>>] = Some("Deep Blue")
    /\ \E i \in 1..Len(last.rows) : last.rows[i] = <<999, 999, 999, "Deep Blue", 2870>>
    /\ cache_get(cache, <<999, 999, 999>>) = Some("Deep Blue")
    /\ cache_get(cache, <<0, 0, 0>>) = Some("Unknown")

\* C12: the cache, shared by the instances, never holds more than MaxCache
\* entries, and a call of get_color_name that evicts an entry, or that asks
\* for the arguments the call before it evicted, returns what the store
\* holds for its key now; the evicted key is read from the store again.
C12_CacheBounded ==
    /\ Len(cache) <= MaxCache
    /\ Cardinality(CachedKeys(cache)) = Len(cache)
    /\ (Resolved /\ ValidKey(last.key) /\ (last.evicted # {} \/ last.lost))
          => last.result = Expected(store, last.key)
    /\ (Resolved /\ last.lost) => (~last.hit /\ Cardinality(last.evicted) = 1)

\* the cache is full, and the arguments evicted by the call before are
\* resolved again to the name stored now, evicting another entry
C12_Witness ==
    /\ Resolved /\ last.lost /\ ~last.hit /\ last.reads = 1
    /\ last.result = "Bright Red" /\ last.evicted # {}
    /\ Len(cache) = MaxCache

\* an optional leading '#', then exactly 3 or 6 of the digits 0-9, a-f, A-F
WellFormedHex(s) ==
    LET d == IF s # <<>> /\ s[1] = "#" THEN Tail(s) ELSE s
    IN  /\ Len(d) \in {3, 6}
        /\ \A i \in 1..Len(d) :
               d[i] \in {"0", "1", "2", "3", "4", "5", "6", "7", "8", "9",
                         "a", "b", "c", "d", "e", "f", "A", "B", "C", "D", "E", "F"}

\* the triple of a well-formed string, each digit of the 3-digit form doubled
HexTriple(s) ==
    LET d == IF s[1] = "#" THEN Tail(s) ELSE s
        e == IF Len(d) = 3 THEN <<d[1], d[1], d[2], d[2], d[3], d[3]>> ELSE d
        byte(j) == 16 * HexDigitValue(e[2 * j - 1]) + HexDigitValue(e[2 * j])
    IN  <<byte(1), byte(2), byte(3)>>

\* C13: hex_to_rgb(s) returns a triple exactly when s is an optional '#'
\* followed by 3 or 6 hex digits, the triple of the digits (a 3-digit string
\* as its doubled 6-digit string), and raises for every other string.
C13_HexToRgb ==
    hex.pc = "done" =>
        IF WellFormedHex(hex.hex_str)
        THEN hex.result = Some(HexTriple(hex.hex_str))
        ELSE hex.result = None

\* C13, the strings of the stated form only: each converts to its triple,
\* "f0a" and "ff00aa" both to (255, 0, 170).
C13_HexWellFormed ==
    (hex.pc = "done" /\ WellFormedHex(hex.hex_str))
        => /\ hex.result = Some(HexTriple(hex.hex_str))
           /\ hex.hex_str \in {<<"f", "0", "a">>, <<"f", "f", "0", "0", "a", "a">>}
                 => hex.result = Some(<<255, 0, 170>>)

\* no add_color is between its write and its cache_clear
NoWriteInProgress == \A t \in Threads : threads[t].pc # "clear"

\* the cache entries that differ from what the store holds for their key
StaleKeys == {k \in CachedKeys(cache) : cache_get(cache, k) # Some(Expected(store, k))}

\* C14: with two threads and no lock, once every add_color has cleared the
\* cache an entry differs from the store only for a key whose
\* get_color_name read the table before an add_color of the key wrote it
\* and stored its result afterwards (raced); such an entry stays, and every
\* hit returns it, until the next cache_clear.
C14_StaleByRace ==
    [][ /\ NoWriteInProgress => StaleKeys \subseteq raced
        /\ (last'.op = "get_color_name" /\ last'.hit)
              => last'.result = cache_get(cache, last'.key)[1]
        /\ \A k \in StaleKeys :
              k \in CachedKeys(cache') \/ cache' = <<>> ]_vars

\* add_color(255, 0, 0, "Bright Red") has returned, no call is in progress,
\* the cache holds "Unknown" for the key and a hit has just returned it
C14_Witness ==
    /\ \A t \in Threads : threads[t].pc = "idle"
    /\ store = {[key |-> <<255, 0, 0>>, name |-> "Bright Red"]}
    /\ cache_get(cache, <<255, 0, 0>>) = Some("Unknown")
    /\ last.op = "get_color_name" /\ last.key = <<255, 0, 0>>
    /\ last.hit /\ last.result = "Unknown"

\* the same with the name of an earlier add_color in the cache
C14_WitnessOldName ==
    /\ \A t \in Threads : threads[t].pc = "idle"
    /\ store = {[key |-> <<255, 0, 0>>, name |-> "Deep Blue"]}
    /\ last.op = "get_color_name" /\ last.hit /\ last.result = "Bright Red"

\* C15: every cache entry has a key in range and holds the name stored at
\* that key or "Unknown"; get_color_name with a component out of range
\* leaves the cache as it was, so it takes no room and evicts nothing.
C15_ValidEntriesOnly ==
    /\ \A i \in 1..Len(cache) :
          /\ ValidKey(cache[i].args)
          /\ \/ cache[i].val = "Unknown"
             \/ \E rec \in RecordsAt(store, cache[i].args) : rec.name = cache[i].val
    /\ (Resolved /\ ~ValidKey(last.key)) => last.key \notin CachedKeys(cache)

\* C16: the connection a call opens is closed when the call returns or
\* raises: a call that is about to return holds no open connection.
C16_ConnectionsScoped ==
    frame.pc = "return" => ~frame.connected

\* C17: with one caller and every write made by add_color or
\* import_from_json, between calls each cache entry of a key in range holds
\* what get_color_name would compute from the store now: "Unknown" when the
\* key has no row, the row's name when it has one (an empty name is
\* reported as "Unknown").
C17_CacheCoherent ==
    \A i \in 1..Len(cache) :
        LET k == cache[i].args
        IN  ValidKey(k) =>
              /\ cache[i].val = Expected(store, k)
              /\ RecordsAt(store, k) = {} => cache[i].val = "Unknown"
              /\ \A rec \in RecordsAt(store, k) : rec.name # "" => cache[i].val = rec.name

\* a stored name and an "Unknown" are cached, and an import that failed
\* after executing a statement has just left both entries in place
C17_Witness ==
    /\ last.op = "import_from_json" /\ last.raised /\ last.writes >= 1
    /\ cache_get(cache, <<999, 999, 999>>) = Some("Bright Red")
    /\ cache_get(cache, <<0, 0, 0>>) = Some("Unknown")

\* C18: the instances share one cache keyed by (self, r, g, b): a call of
\* get_color_name that returns is a hit exactly when its own instance has
\* the key cached, add_color or a returned import on either instance leaves
\* no entry of any instance, and the entries of all instances together
\* never exceed MaxCache.
C18_SharedCache ==
    [][ /\ Len(cache') <= MaxCache
        /\ (CallReturns /\ last'.op \in {"add_color", "import_from_json"} /\ ~last'.raised)
              => (cache' = <<>> /\ last'.evicted = CachedKeys(cache))
        /\ (CallReturns /\ last'.op = "get_color_name" /\ ~last'.raised)
              => LET args == MethodArgs(last'.self, last'.key, last'.form)
                 IN  /\ last'.hit <=> args \in CachedKeys(cache)
                     /\ args \in CachedKeys(cache') ]_vars

\* add_color on instance a has removed an entry of instance b
C18_Witness ==
    /\ Added /\ last.self = "a" /\ cache = <<>>
    /\ \E args \in last.evicted : args[1] = "b"

\* get_color_name on instance a has evicted an entry of instance b, and the
\* cache is full of entries of instance a
C18_EvictionWitness ==
    /\ last.op = "get_color_name" /\ last.self = "a"
    /\ \E args \in last.evicted : args[1] = "b"
    /\ Len(cache) = MaxCache /\ \A args \in CachedKeys(cache) : args[1] = "a"

\* C19: get_color_name never returns the empty string: a key in range
\* whose row has the empty name resolves to "Unknown", as a key without a
\* row does, while find_similar_color returns that row with its empty name.
C19_EmptyNameIsUnknown ==
    /\ Resolved => last.result # ""
    /\ (Resolved /\ ValidKey(last.key)
            /\ RecordsAt(store, last.key) \subseteq {[key |-> last.key, name |-> ""]})
          => last.result = "Unknown"
    /\ Queried
          => \A rec \in store :
                (rec.name = "" /\ Manhattan(rec.key, last.key) <= last.threshold)
                    => \E i \in 1..Len(last.rows) :
                          last.rows[i] = <<rec.key[1], rec.key[2], rec.key[3], "",
                                           Manhattan(rec.key, last.key)>>

\* (999, 999, 999) was added with the empty name and resolved since, the
\* cache holds "Unknown" for it, and find_similar_color returns its row
C19_Witness ==
    /\ Queried
    /\ added[<<999, 999, 999>>] = Some("")
    /\ cache_get(cache, <<999, 999, 999>>) = Some("Unknown")
    /\ \E i \in 1..Len(last.rows) : last.rows[i] = <<999, 999, 999, "", 2870>>

\* C20: get_color_name and find_similar_color leave the table as it is;
\* get_color_name changes the cache at most by adding the entry of its key
\* and dropping other entries, every entry that stays keeping its value;
\* find_similar_color leaves the cache as it is.
C20_ReadsFrame ==
    [][ /\ last'.op \in {"get_color_name", "find_similar_color"} => store' = store
        /\ last'.op = "get_color_name"
              => /\ CachedKeys(cache') \subseteq CachedKeys(cache) \cup {last'.key}
                 /\ \A k \in CachedKeys(cache') \ {last'.key} :
                        cache_get(cache', k) = cache_get(cache, k)
                 /\ last'.hit => CachedKeys(cache') = CachedKeys(cache)
        /\ last'.op = "find_similar_color" => cache' = cache ]_vars

\* with rows stored and the cache full, a miss has added the entry of its
\* key as the most recently used one
C20_Witness ==
    /\ Resolved /\ ~last.hit /\ last.reads = 1
    /\ Len(cache) = MaxCache /\ cache[Len(cache)].args = last.key
    /\ Cardinality(store) >= 2

====
